---- MODULE Spec2Model ----
(***************************************************************************)
(* Model of examples/nlp/ipynb/text_classification_with_transformer.ipynb  *)
(*                                                                         *)
(* Two kinds of behaviour are modelled over the same variables:            *)
(*   - the notebook run: cell 4 (load_data, pad_sequences), cell 5 (model  *)
(*     assembly), cell 6 (compile, fit: train steps and per-epoch          *)
(*     validation);                                                        *)
(*   - single calls of the layers the notebook defines (and of the         *)
(*     assembled model) on inputs drawn from bounded sets.                 *)
(*                                                                         *)
(* Tensors are modelled by their shape and by the term (data flow) that    *)
(* produced them; the embedding layer and the softmax output are also      *)
(* modelled by value on small tables / fixed-point numbers.                *)
(***************************************************************************)
EXTENDS Integers, Sequences, FiniteSets

VARIABLES pc, reviews, x_train, x_val, model, epoch, step, batch, history,
          probe, result

vars == <<pc, reviews, x_train, x_val, model, epoch, step, batch, history,
          probe, result>>

(* ---------------- program constants (notebook cells 4, 5, 6) ----------- *)
vocab_size == 20000
maxlen == 200
embed_dim == 32
num_heads == 2
ff_dim == 32
hidden_units == 20
num_classes == 2
batch_size == 32
epochs == 2
NumTrain == 25000

(* ---------------- bounds of the model ---------------------------------- *)
\* review lengths range over 0..LenSlack and maxlen-LenSlack..maxlen+LenSlack
LenSlack == 1
\* review contents are drawn from MaxSeed+1 patterns
MaxSeed == 1
\* raw word indices of the dataset exceed num_words by up to OovSlack
OovSlack == 5
\* single layer calls: sequence lengths, table sizes, feature sizes, batches
MaxL == 2
MaxVocab == 2
MaxDim == 2
MaxHeads == 2
MaxBatch == 2
\* output logits range over -MaxLogit..MaxLogit
MaxLogit == 3
\* fixed-point unit of the softmax values (1.0 == Scale)
Scale == 1024

(* ---------------- helpers ---------------------------------------------- *)
Min(a, b) == IF a < b THEN a ELSE b
Max(a, b) == IF a > b THEN a ELSE b

SeqToSet(s) == {s[i] : i \in DOMAIN s}

RECURSIVE Pow2(_)
Pow2(n) == IF n <= 0 THEN 1 ELSE 2 * Pow2(n - 1)

RECURSIVE SumSeq(_)
SumSeq(s) == IF s = <<>> THEN 0 ELSE Head(s) + SumSeq(Tail(s))

RECURSIVE MaxSeq(_)
MaxSeq(s) == IF Len(s) = 1 THEN s[1] ELSE Max(Head(s), MaxSeq(Tail(s)))

Front(s) == SubSeq(s, 1, Len(s) - 1)
Last(s) == s[Len(s)]

(* ---------------- tensors: shape + data-flow term ----------------------- *)
N(op, args) == [op |-> op, args |-> args]
Leaf(name) == N(name, <<>>)
T(shape, term) == [ok |-> TRUE, shape |-> shape, term |-> term]
Fail == [ok |-> FALSE, shape |-> <<>>, term |-> Leaf("error")]

(* ---------------- framework layers, by shape and data flow -------------- *)
\* numpy broadcasting of two shapes, aligned at the last axis
BroadcastOK(s1, s2) ==
    \A k \in 1..Min(Len(s1), Len(s2)) :
        LET a == s1[Len(s1) - k + 1]
            b == s2[Len(s2) - k + 1]
        IN  a = b \/ a = 1 \/ b = 1

BroadcastShape(s1, s2) ==
    LET n == Max(Len(s1), Len(s2))
        dim(s, i) == IF i > n - Len(s) THEN s[i - (n - Len(s))] ELSE 1
    IN  [i \in 1..n |-> IF dim(s1, i) = 1 THEN dim(s2, i) ELSE dim(s1, i)]

\* a + b on tensors
Add(a, b) ==
    IF a.ok /\ b.ok /\ BroadcastOK(a.shape, b.shape)
    THEN T(BroadcastShape(a.shape, b.shape), N("add", <<a.term, b.term>>))
    ELSE Fail

\* layers.Dropout(rate): shape unchanged
Dropout(name, x) ==
    IF x.ok THEN T(x.shape, N(name, <<x.term>>)) ELSE Fail

\* layers.LayerNormalization(epsilon): normalises the last axis, shape unchanged
LayerNormalization(name, x) ==
    IF x.ok /\ Len(x.shape) >= 1 THEN T(x.shape, N(name, <<x.term>>)) ELSE Fail

\* layers.Dense(units): maps the last axis to `units`
Dense(name, units, x) ==
    IF x.ok /\ Len(x.shape) >= 2
    THEN T(Front(x.shape) \o <<units>>, N(name, <<x.term>>))
    ELSE Fail

\* layers.MultiHeadAttention(num_heads, key_dim) called as att(query, value):
\* output_shape is not given, so the output is projected back to the query's
\* feature size and has the query's shape
MultiHeadAttention(att, query, value) ==
    IF /\ query.ok /\ value.ok
       /\ Len(query.shape) = 3 /\ Len(value.shape) = 3
       /\ query.shape[1] = value.shape[1]
       /\ att.num_heads >= 1 /\ att.key_dim >= 1
    THEN T(query.shape, N("att", <<query.term, value.term>>))
    ELSE Fail

\* layers.GlobalAveragePooling1D(): (batch, steps, features) -> (batch, features)
GlobalAveragePooling1D(x) ==
    IF x.ok /\ Len(x.shape) = 3
    THEN T(<<x.shape[1], x.shape[3]>>, N("avgpool", <<x.term>>))
    ELSE Fail

\* what a lookup of an index outside an Embedding table does depends on the
\* device the op runs on: it raises, or it yields a zero vector
OutOfRange == {"raise", "zeros"}

\* layers.Embedding(input_dim, output_dim) called on integer indices `ids`
Embedding(name, emb, x, ids, oob) ==
    IF x.ok /\ (ids \subseteq 0..(emb.input_dim - 1) \/ oob = "zeros")
    THEN T(x.shape \o <<emb.output_dim>>, N(name, <<x.term>>))
    ELSE Fail

\* the rows an Embedding lookup returns for the index sequence `idx`
\* (table: index -> vector)
EmbeddingRows(emb, table, idx) ==
    [i \in 1..Len(idx) |->
        IF idx[i] \in 0..(emb.input_dim - 1)
        THEN table[idx[i]]
        ELSE [d \in 1..emb.output_dim |-> 0]]

(* ---------------- class TransformerBlock -------------------------------- *)
\* mutant: the feed-forward network projects back to ff_dim, not embed_dim
TransformerBlockFfnDim(e, h, f) ==
    [att |-> [num_heads |-> h, key_dim |-> e],
     ffn |-> <<f, f>>]

\* __init__(self, embed_dim, num_heads, ff_dim)
TransformerBlock(e, h, f) ==
    [att |-> [num_heads |-> h, key_dim |-> e],
     ffn |-> <<f, e>>]

\* self.ffn = keras.Sequential([Dense(ff_dim, relu), Dense(embed_dim)])
Ffn(units, x) ==
    LET y == Dense("ffn", units[2], Dense("ffn_hidden", units[1], x))
    IN  IF y.ok THEN T(y.shape, N("ffn", <<x.term>>)) ELSE Fail

\* mutant: the second residual adds the block input instead of out1
TransformerBlockCallResidualInputs(self, inputs) ==
    LET attn_output0 == MultiHeadAttention(self.att, inputs, inputs)
        attn_output == Dropout("dropout1", attn_output0)
        out1 == LayerNormalization("layernorm1", Add(inputs, attn_output))
        ffn_output0 == Ffn(self.ffn, out1)
        ffn_output == Dropout("dropout2", ffn_output0)
    IN  LayerNormalization("layernorm2", Add(inputs, ffn_output))

\* call(self, inputs)
TransformerBlockCall(self, inputs) ==
    LET attn_output0 == MultiHeadAttention(self.att, inputs, inputs)
        attn_output == Dropout("dropout1", attn_output0)
        out1 == LayerNormalization("layernorm1", Add(inputs, attn_output))
        ffn_output0 == Ffn(self.ffn, out1)
        ffn_output == Dropout("dropout2", ffn_output0)
    IN  LayerNormalization("layernorm2", Add(out1, ffn_output))

(* ---------------- class TokenAndPositionEmbedding ----------------------- *)
\* __init__(self, maxlen, vocab_size, embed_dim)
TokenAndPositionEmbedding(ml, vs, e) ==
    [token_emb |-> [input_dim |-> vs, output_dim |-> e],
     pos_emb |-> [input_dim |-> ml, output_dim |-> e]]

\* tf.range(start=0, limit=limit, delta=1)
Range0(limit) == [i \in 1..limit |-> i - 1]

\* mutant: the positions are taken from the constructor's maxlen
PositionsFromCtor(self, x) == Range0(self.pos_emb.input_dim)

\* positions = tf.range(start=0, limit=tf.shape(x)[-1], delta=1)
Positions(self, x) == Range0(Last(x.shape))

\* mutant: the token embedding lookup is left out (x + positions on the ids)
TokenAndPositionEmbeddingCallNoTokenEmb(self, x, ids, oob) ==
    IF ~x.ok \/ Len(x.shape) < 1 THEN Fail
    ELSE
    LET positions0 == Positions(self, x)
        positions == Embedding("pos_emb", self.pos_emb,
                               T(<<Len(positions0)>>, Leaf("positions")),
                               SeqToSet(positions0), oob)
    IN  Add(x, positions)

\* call(self, x), by shape: `ids` are the token ids that occur in x
TokenAndPositionEmbeddingCall(self, x, ids, oob) ==
    IF ~x.ok \/ Len(x.shape) < 1 THEN Fail
    ELSE
    LET positions0 == Positions(self, x)
        positions == Embedding("pos_emb", self.pos_emb,
                               T(<<Len(positions0)>>, Leaf("positions")),
                               SeqToSet(positions0), oob)
        x1 == Embedding("token_emb", self.token_emb, x, ids, oob)
    IN  Add(x1, positions)

\* the weights of the two tables (fixed at construction)
TokenTable(self) ==
    [t \in 0..(self.token_emb.input_dim - 1) |->
        [d \in 1..self.token_emb.output_dim |-> 100 * (t + 1) + 10 * d]]

PosTable(self) ==
    [p \in 0..(self.pos_emb.input_dim - 1) |->
        [d \in 1..self.pos_emb.output_dim |-> 7 * (p + 1) + d]]

\* call(self, x), by value, on one example (a sequence of token ids); the sum
\* x + positions broadcasts a single row over the rows of the other operand
TokenAndPositionEmbeddingValues(self, ids) ==
    LET x == T(<<Len(ids)>>, Leaf("x"))
        positions == EmbeddingRows(self.pos_emb, PosTable(self), Positions(self, x))
        x1 == EmbeddingRows(self.token_emb, TokenTable(self), ids)
        n == IF Len(x1) = 1 THEN Len(positions) ELSE Len(x1)
        row(rows, i) == IF Len(rows) = 1 THEN rows[1] ELSE rows[i]
    IN  [i \in 1..n |->
            [d \in 1..self.token_emb.output_dim |->
                row(x1, i)[d] + row(positions, i)[d]]]

(* ---------------- cell 4: dataset preparation --------------------------- *)
\* word i of the review with n words drawn for pattern `seed`: a word rank of
\* the dataset's vocabulary (larger than num_words allows, for some words)
ReviewWords(n, seed) ==
    [i \in 1..n |-> 1 + ((seed * 7 + i * 6667) % (vocab_size + OovSlack))]

ReviewLens ==
    (0..LenSlack) \cup ((maxlen - 1 - LenSlack)..(maxlen - 1 + LenSlack))

\* mutant: num_words is not applied
LoadDataNoLimit(words, num_words) ==
    <<1>> \o [i \in 1..Len(words) |-> words[i] + 3]

\* keras.datasets.imdb.load_data(num_words=num_words) on one review, with the
\* defaults start_char=1, oov_char=2, index_from=3, skip_top=0
LoadData(words, num_words) ==
    LET shifted == <<1>> \o [i \in 1..Len(words) |-> words[i] + 3]
    IN  [i \in 1..Len(shifted) |->
            IF 0 <= shifted[i] /\ shifted[i] < num_words THEN shifted[i] ELSE 2]

\* keras.utils.pad_sequences(x, maxlen=ml) on one sequence, with the defaults
\* padding="pre", truncating="pre", value=0
PadSequences(seq, ml) ==
    LET trunc == IF Len(seq) > ml
                 THEN SubSeq(seq, Len(seq) - ml + 1, Len(seq))
                 ELSE seq
    IN  [i \in 1..(ml - Len(trunc)) |-> 0] \o trunc

(* ---------------- cell 5: the assembled model --------------------------- *)
NoModel ==
    [built |-> FALSE, input_len |-> 0,
     embedding_layer |-> TokenAndPositionEmbedding(0, 0, 0),
     transformer_block |-> TransformerBlock(0, 0, 0)]

\* inputs = layers.Input(shape=(maxlen,)); embedding_layer = ...;
\* transformer_block = ...; model = keras.Model(inputs, outputs)
AssembledModel ==
    [built |-> TRUE, input_len |-> maxlen,
     embedding_layer |-> TokenAndPositionEmbedding(maxlen, vocab_size, embed_dim),
     transformer_block |-> TransformerBlock(embed_dim, num_heads, ff_dim)]

\* the layers after the transformer block
ClassifierHead(x) ==
    LET x1 == GlobalAveragePooling1D(x)
        x2 == Dropout("dropout_3", x1)
        x3 == Dense("dense_relu", hidden_units, x2)
        x4 == Dropout("dropout_4", x3)
    IN  Dense("dense_softmax", num_classes, x4)

\* softmax of one row of pre-activations z, in fixed point (1.0 is Scale):
\* exp(z - max(z)) / sum, with powers of two for the exponential and rounding
\* towards zero (small terms underflow to 0)
Softmax(z) ==
    LET m == MaxSeq(z)
        e == [i \in 1..Len(z) |-> Scale \div Pow2(m - z[i])]
        total == SumSeq(e)
    IN  [i \in 1..Len(z) |-> (e[i] * Scale) \div total]

\* mutant: activation="relu" on the output layer
OutputActivationRelu(z) == [i \in 1..Len(z) |-> Max(0, z[i]) * Scale]

\* mutant: activation="sigmoid" on the output layer
OutputActivationSigmoid(z) ==
    [i \in 1..Len(z) |->
        (Scale * Pow2(z[i] + MaxLogit)) \div (Pow2(z[i] + MaxLogit) + Pow2(MaxLogit))]

\* activation="softmax" of the output layer
OutputActivation(z) == Softmax(z)

\* model(x): x is a batch of token sequences, `ids` the token ids in it
ModelCall(m, x, ids, oob) ==
    IF ~m.built \/ ~x.ok \/ Len(x.shape) # 2 THEN Fail
    ELSE IF x.shape[2] # m.input_len THEN Fail
    ELSE
    LET x1 == TokenAndPositionEmbeddingCall(m.embedding_layer, x, ids, oob)
        x2 == TransformerBlockCall(m.transformer_block, x1)
    IN  ClassifierHead(x2)

(* ---------------- cell 6: model.fit ------------------------------------- *)
\* number of batches of one pass over the training data
StepsPerEpoch == (NumTrain + batch_size - 1) \div batch_size

\* mutant: the last batch is not clipped to the data
BatchEndUnclipped(lo) == lo + batch_size

\* end (exclusive) of the batch that starts at example lo
BatchEnd(lo) == Min(lo + batch_size, NumTrain)

\* mutant: validation runs one step early
EpochCompleteEarly(s) == s = StepsPerEpoch - 1

\* validation runs when the pass over the training data is complete
EpochComplete(s) == s = StepsPerEpoch

NoBatch == [lo |-> 0, hi |-> 0, seen |-> 0, out |-> Fail]

(* ---------------- single layer calls ------------------------------------ *)
NoResult ==
    [ok |-> FALSE, shape |-> <<>>, term |-> Leaf("none"),
     val |-> <<>>, positions |-> <<>>, probs |-> <<>>]

NoProbe ==
    [kind |-> "none",
     emb |-> TokenAndPositionEmbedding(0, 0, 0),
     blk |-> TransformerBlock(0, 0, 0),
     shape |-> <<>>, x |-> <<>>, z |-> <<>>]

Seqs(S, n) == UNION {[1..k -> S] : k \in 0..n}

EmbedProbes ==
    {[NoProbe EXCEPT !.kind = "embed",
                     !.emb = TokenAndPositionEmbedding(ml, vs, e),
                     !.shape = <<Len(x)>>, !.x = x] :
        ml \in 1..MaxL, vs \in 1..MaxVocab, e \in 1..MaxDim,
        x \in Seqs(0..MaxVocab, MaxL + 1)}

BlockProbes ==
    {[NoProbe EXCEPT !.kind = "block",
                     !.blk = TransformerBlock(e, h, f),
                     !.shape = <<b, s, d>>] :
        e \in 1..MaxDim, h \in 1..MaxHeads, f \in 1..MaxDim,
        b \in 1..MaxBatch, s \in 1..MaxL, d \in 1..MaxDim}

Logits == [1..num_classes -> (-MaxLogit)..MaxLogit]

HeadProbes ==
    {[NoProbe EXCEPT !.kind = "head", !.shape = <<b, s, d>>, !.z = z] :
        b \in 1..MaxBatch, s \in 1..MaxL, d \in 1..MaxDim, z \in Logits}

ModelProbes ==
    {[NoProbe EXCEPT !.kind = "model", !.shape = <<b, s>>, !.z = z] :
        b \in {1, NumTrain % batch_size, batch_size},
        s \in (maxlen - LenSlack)..(maxlen + LenSlack), z \in Logits}

(* ---------------- initial states ---------------------------------------- *)
InitNotebook ==
    /\ pc = "load"
    /\ \E n \in ReviewLens, seed \in 0..MaxSeed :
          reviews = [train |-> ReviewWords(n, seed), val |-> ReviewWords(n, seed + 1)]
    /\ x_train = <<>>
    /\ x_val = <<>>
    /\ model = NoModel
    /\ epoch = 0
    /\ step = 0
    /\ batch = NoBatch
    /\ history = <<>>
    /\ probe = NoProbe
    /\ result = NoResult

InitCall ==
    /\ pc = "call"
    /\ reviews = [train |-> <<>>, val |-> <<>>]
    /\ x_train = <<>>
    /\ x_val = <<>>
    /\ model = AssembledModel
    /\ epoch = 0
    /\ step = 0
    /\ batch = NoBatch
    /\ history = <<>>
    /\ probe \in EmbedProbes \cup BlockProbes \cup HeadProbes \cup ModelProbes
    /\ result = NoResult

Init == InitNotebook \/ InitCall

(* ---------------- the notebook's steps ---------------------------------- *)
\* (x_train, y_train), (x_val, y_val) = load_data(num_words=vocab_size)
CellLoadData ==
    /\ pc = "load"
    /\ x_train' = LoadData(reviews.train, vocab_size)
    /\ x_val' = LoadData(reviews.val, vocab_size)
    /\ pc' = "pad"
    /\ UNCHANGED <<reviews, model, epoch, step, batch, history, probe, result>>

\* x_train = pad_sequences(x_train, maxlen=maxlen); likewise x_val
CellPadSequences ==
    /\ pc = "pad"
    /\ x_train' = PadSequences(x_train, maxlen)
    /\ x_val' = PadSequences(x_val, maxlen)
    /\ pc' = "build"
    /\ UNCHANGED <<reviews, model, epoch, step, batch, history, probe, result>>

\* cell 5
CellBuildModel ==
    /\ pc = "build"
    /\ model' = AssembledModel
    /\ pc' = "compile"
    /\ UNCHANGED <<reviews, x_train, x_val, epoch, step, batch, history, probe, result>>

\* model.compile(...); model.fit(...) starts its first epoch
FitBegin ==
    /\ pc = "compile"
    /\ epoch' = 1
    /\ step' = 0
    /\ batch' = NoBatch
    /\ pc' = "train"
    /\ UNCHANGED <<reviews, x_train, x_val, model, history, probe, result>>

\* one training step of fit: the next batch of the pass goes through the model
TrainStep ==
    /\ pc = "train"
    /\ ~EpochComplete(step)
    /\ \E oob \in OutOfRange :
         LET lo == step * batch_size
             hi == BatchEnd(lo)
         IN  \E out \in {ModelCall(model, T(<<hi - lo, Len(x_train)>>, Leaf("x_train")),
                                   SeqToSet(x_train), oob)} :
                /\ batch' = [lo |-> lo, hi |-> hi, seen |-> batch.seen + (hi - lo),
                             out |-> out]
                /\ pc' = IF out.ok THEN "train" ELSE "error"
    /\ step' = step + 1
    /\ UNCHANGED <<reviews, x_train, x_val, model, epoch, history, probe, result>>

\* end of an epoch: evaluation on validation_data, one entry of history, then
\* the next epoch or the end of fit
Validate ==
    /\ pc = "train"
    /\ EpochComplete(step)
    /\ \E oob \in OutOfRange :
         \E out \in {ModelCall(model, T(<<batch_size, Len(x_val)>>, Leaf("x_val")),
                                SeqToSet(x_val), oob)} :
             /\ history' = Append(history,
                    [epoch |-> epoch, steps |-> step, samples |-> batch.seen,
                     val_ok |-> out.ok])
             /\ pc' = IF ~out.ok THEN "error"
                      ELSE IF epoch >= epochs THEN "done" ELSE "train"
    /\ epoch' = IF epoch >= epochs THEN epoch ELSE epoch + 1
    /\ step' = 0
    /\ batch' = NoBatch
    /\ UNCHANGED <<reviews, x_train, x_val, model, probe, result>>

(* ---------------- single calls ------------------------------------------ *)
CallEmbedding ==
    /\ pc = "call"
    /\ probe.kind = "embed"
    /\ \E oob \in OutOfRange :
         \E out \in {TokenAndPositionEmbeddingCall(probe.emb, T(probe.shape, Leaf("x")),
                                                    SeqToSet(probe.x), oob)} :
             result' = [NoResult EXCEPT
                          !.ok = out.ok, !.shape = out.shape, !.term = out.term,
                          !.positions = Positions(probe.emb, T(probe.shape, Leaf("x"))),
                          !.val = IF out.ok
                                  THEN TokenAndPositionEmbeddingValues(probe.emb, probe.x)
                                  ELSE <<>>]
    /\ pc' = "returned"
    /\ UNCHANGED <<reviews, x_train, x_val, model, epoch, step, batch, history, probe>>

CallBlock ==
    /\ pc = "call"
    /\ probe.kind = "block"
    /\ \E out \in {TransformerBlockCall(probe.blk, T(probe.shape, Leaf("inputs")))} :
           result' = [NoResult EXCEPT
                        !.ok = out.ok, !.shape = out.shape, !.term = out.term]
    /\ pc' = "returned"
    /\ UNCHANGED <<reviews, x_train, x_val, model, epoch, step, batch, history, probe>>

CallHead ==
    /\ pc = "call"
    /\ probe.kind = "head"
    /\ \E out \in {ClassifierHead(T(probe.shape, Leaf("x")))} :
           result' = [NoResult EXCEPT
                        !.ok = out.ok, !.shape = out.shape, !.term = out.term,
                        !.probs = IF out.ok THEN OutputActivation(probe.z) ELSE <<>>]
    /\ pc' = "returned"
    /\ UNCHANGED <<reviews, x_train, x_val, model, epoch, step, batch, history, probe>>

CallModel ==
    /\ pc = "call"
    /\ probe.kind = "model"
    /\ \E oob \in OutOfRange :
         \E out \in {ModelCall(model, T(probe.shape, Leaf("x")),
                                {0, 1, vocab_size - 1}, oob)} :
             result' = [NoResult EXCEPT
                          !.ok = out.ok, !.shape = out.shape, !.term = out.term,
                          !.probs = IF out.ok THEN OutputActivation(probe.z) ELSE <<>>]
    /\ pc' = "returned"
    /\ UNCHANGED <<reviews, x_train, x_val, model, epoch, step, batch, history, probe>>

Next ==
    \/ CellLoadData
    \/ CellPadSequences
    \/ CellBuildModel
    \/ FitBegin
    \/ TrainStep
    \/ Validate
    \/ CallEmbedding
    \/ CallBlock
    \/ CallHead
    \/ CallModel

Spec == Init /\ [][Next]_vars

(* ======================= claims ========================================= *)
ValidIds(p) == SeqToSet(p.x) \subseteq 0..(p.emb.token_emb.input_dim - 1)
BlockReturned == pc = "returned" /\ probe.kind = "block"
EmbedReturned == pc = "returned" /\ probe.kind = "embed"

\* C1 as stated: TransformerBlock.call returns a tensor of the input's shape
\* for every input shape (batch, sequence_length, d) and every embed_dim,
\* num_heads, ff_dim.
C1_ShapePreservedAnyInput ==
    BlockReturned => result.ok /\ result.shape = probe.shape

\* C1 amended: TransformerBlock.call returns a tensor of the input's shape for
\* every input (batch, sequence_length, d) whose feature size d equals the
\* block's embed_dim, for any num_heads and ff_dim.
C1_ShapePreserved ==
    (BlockReturned /\ probe.shape[3] = probe.blk.att.key_dim)
        => result.ok /\ result.shape = probe.shape

C1_Witness ==
    /\ BlockReturned
    /\ probe.shape[3] = probe.blk.att.key_dim
    /\ probe.blk.att.key_dim > 1
    /\ probe.blk.ffn[1] # probe.blk.att.key_dim
    /\ probe.shape[2] > 1
    /\ result.ok

\* C2 as stated: for every sequence of token ids in [0, vocab_size), of any
\* length, TokenAndPositionEmbedding.call returns shape (sequence_length,
\* embed_dim).
C2_EmbeddingShapeAnyLength ==
    (EmbedReturned /\ ValidIds(probe))
        => result.ok /\ result.shape = <<Len(probe.x), probe.emb.token_emb.output_dim>>

\* C2 amended: for every sequence of token ids in [0, vocab_size) whose length
\* is at most the constructor's maxlen, TokenAndPositionEmbedding.call returns
\* shape (sequence_length, embed_dim).
C2_EmbeddingShape ==
    (EmbedReturned /\ ValidIds(probe) /\ Len(probe.x) <= probe.emb.pos_emb.input_dim)
        => result.ok /\ result.shape = <<Len(probe.x), probe.emb.token_emb.output_dim>>

C2_Witness ==
    /\ EmbedReturned
    /\ ValidIds(probe)
    /\ Len(probe.x) = 2
    /\ probe.emb.pos_emb.input_dim = 2
    /\ probe.emb.token_emb.output_dim = 1
    /\ result.shape = <<2, 1>>

\* C3: the assembled model maps a batch of 32 token sequences of length 200 to
\* an output of shape (32, 2) whose values lie in [0, 1] (0..Scale in fixed
\* point); this holds for a single call and for every full batch of fit.
C3_EndToEnd ==
    /\ (pc = "returned" /\ probe.kind = "model" /\ probe.shape = <<32, 200>>)
          => /\ result.ok
             /\ result.shape = <<32, 2>>
             /\ Len(result.probs) = 2
             /\ \A i \in 1..Len(result.probs) :
                    0 <= result.probs[i] /\ result.probs[i] <= Scale
    /\ (pc = "train" /\ step >= 1 /\ batch.hi - batch.lo = 32)
          => batch.out.ok /\ batch.out.shape = <<32, 2>>

C3_Witness ==
    /\ pc = "returned"
    /\ probe.kind = "model"
    /\ probe.shape = <<32, 200>>
    /\ result.ok
    /\ result.probs[1] > result.probs[2]
    /\ result.probs[2] > 0

\* C4: the output of the classifier head (alone, or at the end of the model)
\* is a distribution over 2 classes: two values, none negative, whose sum is 1
\* up to the rounding of the two terms (Scale - 1 .. Scale in fixed point).
C4_Distribution ==
    (pc = "returned" /\ probe.kind \in {"head", "model"} /\ result.ok)
        => /\ Last(result.shape) = 2
           /\ Len(result.probs) = 2
           /\ \A i \in 1..Len(result.probs) : result.probs[i] >= 0
           /\ SumSeq(result.probs) <= Scale
           /\ SumSeq(result.probs) >= Scale - (Len(result.probs) - 1)

C4_Witness ==
    /\ pc = "returned"
    /\ probe.kind = "head"
    /\ result.ok
    /\ probe.z[1] = MaxLogit
    /\ probe.z[2] = MaxLogit

\* C5: once cell 4 has run, the training and the validation sequence have
\* length exactly 200 and hold only integers of [0, vocab_size), whatever the
\* length of the review.
C5_Prepared ==
    pc \in {"build", "compile", "train", "done", "error"}
        => /\ Len(x_train) = 200
           /\ Len(x_val) = 200
           /\ \A i \in 1..Len(x_train) : x_train[i] \in 0..(vocab_size - 1)
           /\ \A i \in 1..Len(x_val) : x_val[i] \in 0..(vocab_size - 1)

C5_Witness ==
    /\ pc = "build"
    /\ Len(reviews.train) + 1 > maxlen
    /\ \E i \in 1..Len(reviews.train) : reviews.train[i] + 3 >= vocab_size
    /\ \E i \in 1..Len(x_train) : x_train[i] = 2

\* C6 as stated: for a review longer than 200 tokens the prepared sequence is
\* the review's first 200 tokens, in order.
C6_FirstWordsKept ==
    (pc = "build" /\ Len(LoadData(reviews.train, vocab_size)) > maxlen)
        => x_train = SubSeq(LoadData(reviews.train, vocab_size), 1, maxlen)

\* C7: fit runs 2 epochs; the report of epoch i is written when all
\* StepsPerEpoch training steps of epoch i are done, there is one report per
\* finished epoch, in order, and fit is over exactly when the second report
\* is written, after which nothing runs.
C7_EpochsAndReports ==
    /\ \A i \in 1..Len(history) :
          /\ history[i].epoch = i
          /\ history[i].steps = StepsPerEpoch
          /\ history[i].val_ok
    /\ Len(history) <= 2
    /\ pc = "train" => (epoch \in 1..2 /\ Len(history) = epoch - 1 /\ step <= StepsPerEpoch)
    /\ pc = "done" <=> Len(history) = 2
    /\ pc = "done" => ~ENABLED Next

C7_Witness ==
    /\ pc = "done"
    /\ Len(history) = 2
    /\ history[2].steps = 782

\* C8 as stated: every batch handed to a training step holds exactly 32
\* examples.
C8_EveryBatchFull ==
    (pc = "train" /\ step >= 1) => batch.hi - batch.lo = 32

\* C8 amended: in every pass over the 25000 training sequences the batches
\* follow one another without gap or overlap, the first 781 hold exactly 32
\* examples, the 782nd and last holds the remaining 8, and the pass ends when
\* all 25000 examples have been in exactly one batch.
C8_Batches ==
    /\ (pc = "train" /\ step >= 1)
          => /\ batch.lo = (step - 1) * 32
             /\ batch.lo = batch.seen - (batch.hi - batch.lo)
             /\ step < 782 => batch.hi - batch.lo = 32
             /\ step = 782 => (batch.hi - batch.lo = 8 /\ batch.hi = 25000)
             /\ step <= 782
    /\ \A i \in 1..Len(history) : history[i].samples = 25000

C8_Witness ==
    /\ pc = "train"
    /\ epoch = 2
    /\ step = 782
    /\ batch.hi - batch.lo = 8
    /\ batch.seen = 25000

\* C9: the result of TransformerBlock.call is
\* layernorm2(out1 + dropout2(ffn(out1))) with
\* out1 = layernorm1(inputs + dropout1(att(inputs, inputs))).
C9_DataFlow ==
    (BlockReturned /\ result.ok)
        => LET inputs == Leaf("inputs")
               attn == N("dropout1", <<N("att", <<inputs, inputs>>)>>)
               out1 == N("layernorm1", <<N("add", <<inputs, attn>>)>>)
               ffn == N("dropout2", <<N("ffn", <<out1>>)>>)
           IN  result.term = N("layernorm2", <<N("add", <<out1, ffn>>)>>)

C9_Witness ==
    /\ BlockReturned
    /\ result.ok
    /\ result.term.op = "layernorm2"
    /\ probe.shape[2] > 1

\* C10: TokenAndPositionEmbedding.call looks up the positions 0, 1, ..., L-1
\* (L the length of the input, whatever the constructor's maxlen); all of them
\* are inside the position table iff L <= maxlen; for valid token ids and
\* L <= maxlen output position i is token_emb[x[i]] + pos_emb[i]; and the
\* assembled model feeds the layer sequences no longer than its table.
C10_Positions ==
    /\ EmbedReturned =>
          LET L == Len(probe.x)
              ml == probe.emb.pos_emb.input_dim
          IN  /\ Len(result.positions) = L
              /\ \A i \in 1..Len(result.positions) : result.positions[i] = i - 1
              /\ (\A i \in 1..Len(result.positions) : result.positions[i] \in 0..(ml - 1))
                    <=> L <= ml
              /\ (ValidIds(probe) /\ L <= ml) =>
                    /\ result.ok
                    /\ Len(result.val) = L
                    /\ \A i \in 1..L : \A d \in 1..probe.emb.token_emb.output_dim :
                          result.val[i][d] = TokenTable(probe.emb)[probe.x[i]][d]
                                             + PosTable(probe.emb)[i - 1][d]
    /\ model.built => model.input_len <= model.embedding_layer.pos_emb.input_dim

C10_Witness ==
    /\ EmbedReturned
    /\ ValidIds(probe)
    /\ Len(probe.x) = 2
    /\ probe.x[1] # probe.x[2]
    /\ probe.emb.pos_emb.input_dim = 2
    /\ result.ok

====
